---------------------------- MODULE Spec2Model ----------------------------
(***************************************************************************)
(* A model of management/dns_update.py: the zone set (get_dns_zones), the  *)
(* custom record store (set_custom_dns_record), record synthesis           *)
(* (build_zone), zone publication (write_nsd_zone, sign_zone) and a run of  *)
(* do_dns_update.                                                           *)
(*                                                                         *)
(* A Python str is a sequence of atoms.  Names (domains, qnames) and       *)
(* serial numbers are sequences of single characters; the fixed pieces of  *)
(* text the code writes (the SOA header, "v=spf1 ", ...) are one atom      *)
(* each.  A Python Optional is None == << >> or Some(x) == <<x>>.          *)
(***************************************************************************)
EXTENDS Integers, Sequences, FiniteSets, TLC

VARIABLES
  env,           \* the box configuration (utils.load_environment)
  mail_domains,  \* mailconfig.get_mail_domains(env)
  custom,        \* STORAGE_ROOT/dns/custom.yaml, as loaded by get_custom_dns_config
  now,           \* datetime.datetime.now(), in half days since 2014-01-01 00:00
  zonefile,      \* /etc/nsd/zones/<domain>.txt, per domain
  signed,        \* /etc/nsd/zones/<domain>.txt.signed, per domain
  nsdconf,       \* /etc/nsd/nsd.conf
  dkim,          \* /etc/opendkim/SigningTable and KeyTable
  pc,            \* position of do_dns_update: "idle", "zones"
  run,           \* the locals of the running do_dns_update
  log,           \* what the current (or last) run did, in order
  hist,          \* what the runs were given: the inputs of this run and of the last completed one
  ret            \* the outcome of the last call

vars == <<env, mail_domains, custom, now, zonefile, signed, nsdconf, dkim,
          pc, run, log, hist, ret>>

None == << >>
Some(x) == <<x>>

---------------------------------------------------------------------------
(* str: comparison, prefixes and suffixes *)

\* The characters the model's names use, in code point order.
Alphabet == <<".", "0", "1", "2", "3", "4", "5", "6", "7", "8", "9", "_",
              "a", "b", "c", "d", "e", "i", "k", "l", "m", "n", "o", "p",
              "r", "s", "t", "w", "y">>

Ord(c) == CHOOSE i \in 1..Len(Alphabet) : Alphabet[i] = c

\* s < t on Python str: lexicographic by code point.
RECURSIVE StrLess(_, _)
StrLess(s, t) ==
  IF t = << >> THEN FALSE
  ELSE IF s = << >> THEN TRUE
  ELSE IF s[1] = t[1] THEN StrLess(Tail(s), Tail(t))
  ELSE Ord(s[1]) < Ord(t[1])

EndsWith(s, suffix) ==
  /\ Len(suffix) <= Len(s)
  /\ SubSeq(s, Len(s) - Len(suffix) + 1, Len(s)) = suffix

StartsWith(s, prefix) ==
  /\ Len(prefix) <= Len(s)
  /\ SubSeq(s, 1, Len(prefix)) = prefix

Dot == <<".">>

\* d is a strict subdomain of parent: d.endswith("." + parent)
IsSubdomain(d, parent) == EndsWith(d, Dot \o parent)

---------------------------------------------------------------------------
(* The domain names of the model *)

D_b    == <<"b">>
D_c    == <<"c">>
D_ab   == <<"a", "b">>
D_a_b  == <<"a", ".", "b">>
D_c_b  == <<"c", ".", "b">>
D_ca_b == <<"c", ".", "a", ".", "b">>

PrimaryHostname == D_a_b
MailUniverse == {D_b, D_c, D_ab, D_c_b, D_ca_b}

IP4 == <<"203.0.113.5">>
IP6 == <<"2001:db8::5">>

\* env: PUBLIC_IPV6 may be missing from the file, empty, or an address.
Envs ==
  { [PRIMARY_HOSTNAME |-> PrimaryHostname, PUBLIC_IP |-> IP4, PUBLIC_IPV6 |-> v6]
      : v6 \in {None, Some(<< >>), Some(IP6)} }

---------------------------------------------------------------------------
(* get_dns_domains, get_dns_zones *)

get_dns_domains(e, mail) == mail \cup {e.PRIMARY_HOSTNAME}

MinLen(S) == CHOOSE n \in {Len(x) : x \in S} : \A x \in S : n <= Len(x)

\* sorted(domains, key=len): a stable sort of a set, which iterates in any order.
RECURSIVE SortedByLen(_)
SortedByLen(S) ==
  IF S = {} THEN { << >> }
  ELSE UNION { { <<x>> \o p : p \in SortedByLen(S \ {x}) }
                 : x \in {y \in S : Len(y) = MinLen(S)} }

\* (mutant: the suffix test without the dot)
HasParentIn_NoDot(domain, zone_domains) ==
  \E d \in zone_domains : EndsWith(domain, d)

\* for d in zone_domains: if domain.endswith("." + d): break
HasParentIn(domain, zone_domains) ==
  \E d \in zone_domains : EndsWith(domain, Dot \o d)

\* The loop of get_dns_zones over the sorted domains.
RECURSIVE AdmitZones(_, _)
AdmitZones(order, zone_domains) ==
  IF order = << >> THEN zone_domains
  ELSE AdmitZones(Tail(order),
                  IF HasParentIn(Head(order), zone_domains)
                  THEN zone_domains
                  ELSE zone_domains \cup {Head(order)})

\* utils.safe_domain_name: percent-quoting, which leaves letters, digits, "." and "_" alone.
safe_domain_name(d) == d

\* utils.sort_domains: a fixed total order on names.
RECURSIVE sort_domains(_)
sort_domains(S) ==
  IF S = {} THEN << >>
  ELSE LET m == CHOOSE a \in S : \A b \in S \ {a} : StrLess(a, b)
       IN <<m>> \o sort_domains(S \ {m})

TxtSuffix == <<".txt">>

\* (mutant: nsd.conf names the unsigned zone files)
SignedSuffix_None == << >>

SignedSuffix == <<".signed">>

\* get_dns_zones(env), with the order the domains came out of sorted() in.
get_dns_zones(e, mail, order) ==
  LET zone_order == sort_domains(AdmitZones(order, {}))
  IN [i \in 1..Len(zone_order) |->
        <<zone_order[i], safe_domain_name(zone_order[i]) \o TxtSuffix>>]

ZoneOrders(e, mail) == SortedByLen(get_dns_domains(e, mail))

---------------------------------------------------------------------------
(* The custom record store: get_custom_dns_config, set_custom_dns_record *)

\* A store is the loaded mapping, in its key order: a sequence of entries.
\* An entry is short form (form = "str", the string in value) or mapping
\* form (form = "dict", the (rtype, value) pairs in items, in key order).
StrEntry(qname, value) ==
  [qname |-> qname, form |-> "str", value |-> value, items |-> << >>]
DictEntry(qname, items) ==
  [qname |-> qname, form |-> "dict", value |-> << >>, items |-> items]

\* qname in config
InConfig(config, qname) == \E i \in 1..Len(config) : config[i].qname = qname
IndexOf(config, qname) == CHOOSE i \in 1..Len(config) : config[i].qname = qname
Lookup(config, qname) == config[IndexOf(config, qname)]

\* config[qname] = entry
Assign(config, entry) ==
  IF InConfig(config, entry.qname)
  THEN [config EXCEPT ![IndexOf(config, entry.qname)] = entry]
  ELSE Append(config, entry)

\* del config[qname]
Delete(config, qname) ==
  LET i == IndexOf(config, qname)
  IN SubSeq(config, 1, i - 1) \o SubSeq(config, i + 1, Len(config))

\* rtype in config[qname], config[qname].get(rtype), config[qname][rtype] = value,
\* del config[qname][rtype]
HasItem(items, rtype) == \E i \in 1..Len(items) : items[i][1] = rtype
ItemIndex(items, rtype) == CHOOSE i \in 1..Len(items) : items[i][1] = rtype
GetItem(items, rtype) ==
  IF HasItem(items, rtype) THEN Some(items[ItemIndex(items, rtype)][2]) ELSE None
SetItem(items, rtype, value) ==
  IF HasItem(items, rtype)
  THEN [items EXCEPT ![ItemIndex(items, rtype)] = <<rtype, value>>]
  ELSE Append(items, <<rtype, value>>)
DelItem(items, rtype) ==
  LET i == ItemIndex(items, rtype)
  IN SubSeq(items, 1, i - 1) \o SubSeq(items, i + 1, Len(items))

\* rtype.upper()
Upper(rtype) ==
  CASE rtype = "a" -> "A"
    [] rtype = "aaaa" -> "AAAA"
    [] rtype = "cname" -> "CNAME"
    [] rtype = "txt" -> "TXT"
    [] rtype = "mx" -> "MX"
    [] OTHER -> rtype

\* ipaddress.ip_address(value): the literals it parses, by version.
IP4b == <<"198.51.100.7">>
IPv4Literals == {IP4, IP4b}
IPv6Literals == {IP6}

\* The string literal the update branches compare the stored value with.
LiteralValue == <<"value">>

\* validate qname: it must match a zone apex or be a subdomain of one
ManagedName(qname, zones) ==
  \E i \in 1..Len(zones) : qname = zones[i][1] \/ EndsWith(qname, Dot \o zones[i][1])

\* (mutant: an address of either version passes for A and for AAAA)
ValidationError_AnyVersion(rtype, value) ==
  /\ value # None
  /\ IF rtype \in {"A", "AAAA"}
     THEN value[1] \notin IPv4Literals \cup IPv6Literals
     ELSE rtype \notin {"CNAME", "TXT"}

\* validate rtype (after upper()); value is Some(string), or None to delete
ValidationError(rtype, value) ==
  /\ value # None
  /\ IF rtype \in {"A", "AAAA"}
     THEN \/ value[1] \notin IPv4Literals \cup IPv6Literals
          \/ rtype = "A" /\ value[1] \notin IPv4Literals
          \/ rtype = "AAAA" /\ value[1] \notin IPv6Literals
     ELSE rtype \notin {"CNAME", "TXT"}

Unchanged(config) == [result |-> "False", config |-> config]
Saved(config) == [result |-> "True", config |-> config]

\* (mutant: the first record of a name is stored as a mapping, type A too)
UpdateAbsent_Mapping(config, qname, rtype, value) ==
  IF value = None THEN Unchanged(config)
  ELSE Saved(Assign(config, DictEntry(qname, <<<<rtype, value[1]>>>>)))

\* the update of a name that is not in the config
UpdateAbsent(config, qname, rtype, value) ==
  IF value = None THEN Unchanged(config)
  ELSE IF rtype = "A" THEN Saved(Assign(config, StrEntry(qname, value[1])))
  ELSE Saved(Assign(config, DictEntry(qname, <<<<rtype, value[1]>>>>)))

\* (mutant: deleting any type from a short-form name deletes the name)
UpdateStr_DeleteAnyType(config, qname, rtype, value) ==
  LET old == Lookup(config, qname).value
  IN IF value = None THEN Saved(Delete(config, qname))
     ELSE IF rtype = "A"
          THEN IF old = LiteralValue THEN Unchanged(config)
               ELSE Saved(Assign(config, StrEntry(qname, value[1])))
     ELSE Saved(Assign(config, DictEntry(qname, <<<<"A", old>>, <<rtype, value[1]>>>>)))

\* the update of a name held in short form
UpdateStr(config, qname, rtype, value) ==
  LET old == Lookup(config, qname).value
  IN IF value = None /\ rtype # "A" THEN Unchanged(config)
     ELSE IF value = None /\ rtype = "A" THEN Saved(Delete(config, qname))
     ELSE IF rtype = "A"
          THEN IF old = LiteralValue THEN Unchanged(config)
               ELSE Saved(Assign(config, StrEntry(qname, value[1])))
     ELSE Saved(Assign(config, DictEntry(qname, <<<<"A", old>>, <<rtype, value[1]>>>>)))

\* (mutant: the name stays, with an empty mapping, when its last record goes)
UpdateDict_KeepEmpty(config, qname, rtype, value) ==
  LET items == Lookup(config, qname).items
  IN IF value = None
     THEN IF ~HasItem(items, rtype) THEN Unchanged(config)
          ELSE Saved(Assign(config, DictEntry(qname, DelItem(items, rtype))))
     ELSE IF GetItem(items, rtype) = Some(LiteralValue) THEN Unchanged(config)
          ELSE Saved(Assign(config, DictEntry(qname, SetItem(items, rtype, value[1]))))

\* the update of a name held in mapping form
UpdateDict(config, qname, rtype, value) ==
  LET items == Lookup(config, qname).items
  IN IF value = None
     THEN IF ~HasItem(items, rtype) THEN Unchanged(config)
          ELSE IF Len(DelItem(items, rtype)) = 0 THEN Saved(Delete(config, qname))
          ELSE Saved(Assign(config, DictEntry(qname, DelItem(items, rtype))))
     ELSE IF GetItem(items, rtype) = Some(LiteralValue) THEN Unchanged(config)
          ELSE Saved(Assign(config, DictEntry(qname, SetItem(items, rtype, value[1]))))

\* set_custom_dns_record(qname, rtype, value, env): what it returns ("error"
\* for a ValueError) and the config it leaves in custom.yaml.
set_custom_dns_record(config, qname, rtype0, value, zones) ==
  LET rtype == Upper(rtype0)
  IN IF ~ManagedName(qname, zones) THEN [result |-> "error", config |-> config]
     ELSE IF ValidationError(rtype, value) THEN [result |-> "error", config |-> config]
     ELSE IF ~InConfig(config, qname) THEN UpdateAbsent(config, qname, rtype, value)
     ELSE IF Lookup(config, qname).form = "str" THEN UpdateStr(config, qname, rtype, value)
     ELSE UpdateDict(config, qname, rtype, value)

---------------------------------------------------------------------------
(* build_zone: the records of one zone *)

\* A record is the tuple (qname, rtype, value, explanation) of the code: qname
\* is None (the apex) or Some(relative name); explanation is kept by its leading
\* word, "False" for the records marked False.
Rec(qname, rtype, value, explanation) ==
  [qname |-> qname, rtype |-> rtype, value |-> value, explanation |-> explanation]

Q_ns1   == <<"n", "s", "1">>
Q_ns2   == <<"n", "s", "2">>
Q_www   == <<"w", "w", "w">>
Q_dmarc == <<"_", "d", "m", "a", "r", "c">>
Q_tlsa  == <<"_", "2", "5", ".", "_", "t", "c", "p">>
Q_dkim  == <<"m", "a", "i", "l", ".", "_", "d", "o", "m", "a", "i", "n", "k", "e", "y">>

Local == <<"local">>
SpfPrefix == <<"v=spf1 ">>
DmarcPrefix == <<"v=DMARC1; ">>
SpfMx == SpfPrefix \o <<"mx -all">>
SpfStrict == SpfPrefix \o <<"a mx -all">>
DmarcQuarantine == DmarcPrefix \o <<"p=quarantine">>
DmarcReject == DmarcPrefix \o <<"p=reject">>
UserSet == "(Set by user.)"

\* env.get('PUBLIC_IPV6') is truthy
HasIPv6(e) == e.PUBLIC_IPV6 # None /\ e.PUBLIC_IPV6[1] # << >>

\* value.strip() == ""
IsBlank(value) == \A i \in 1..Len(value) : value[i] \in {" ", "\t", "\n"}

\* build_tlsa_record(env): "3 0 1 " + the SHA-256 of the box's certificate
build_tlsa_record(e) == <<"3 0 1 ", "certhash">>

\* ssh-keyscan localhost, one (keytype, pubkey) per line; lines that do not
\* parse are left out by build_sshfp_records.
KeyscanLines == << <<"#", "comment">>, <<"ssh-rsa", "rsakey">>, <<"ssh-ed25519", "edkey">> >>
AlgorithmNumber(keytype) ==
  CASE keytype = "ssh-rsa" -> Some("1")
    [] keytype = "ssh-dss" -> Some("2")
    [] keytype = "ecdsa-sha2-nistp256" -> Some("3")
    [] OTHER -> None

RECURSIVE SshfpOf(_)
SshfpOf(lines) ==
  IF lines = << >> THEN << >>
  ELSE LET key == Head(lines)
       IN (IF key[1] = "#" \/ AlgorithmNumber(key[1]) = None
           THEN << >>
           ELSE << <<AlgorithmNumber(key[1])[1], " 2 ( ", "sha256:" , key[2], " )">> >>)
          \o SshfpOf(Tail(lines))

build_sshfp_records == SshfpOf(KeyscanLines)

\* STORAGE_ROOT/mail/dkim/mail.txt: the name and the two quoted chunks
DkimRecordFile == [name |-> Q_dkim, chunk1 |-> "v=DKIM1; k=rsa; ", chunk2 |-> "p=dkimkey"]

\* has_rec(qname, rtype, prefix): prefix is None or Some(prefix)
has_rec(records, qname, rtype, prefix) ==
  \E i \in 1..Len(records) :
    /\ records[i].qname = qname
    /\ records[i].rtype = rtype
    /\ (prefix = None \/ StartsWith(records[i].value, prefix[1]))

\* The iteration order of a Python set of str (and None): it depends on the
\* process's hash seed.  seed 0 iterates in ascending order, seed 1 in
\* descending order, so every two elements come in both orders.
QLess(q1, q2) ==
  IF q2 = None THEN FALSE ELSE IF q1 = None THEN TRUE ELSE StrLess(q1[1], q2[1])

RECURSIVE Ascending(_)
Ascending(S) ==
  IF S = {} THEN << >>
  ELSE LET m == CHOOSE a \in S : \A b \in S \ {a} : QLess(a, b)
       IN <<m>> \o Ascending(S \ {m})

Reverse(s) == [i \in 1..Len(s) |-> s[Len(s) + 1 - i]]

SetOrder(S, seed) == IF seed = 0 THEN Ascending(S) ELSE Reverse(Ascending(S))
HashSeeds == {0, 1}

\* get_custom_records(domain, additional_records, env): the (qname, rtype,
\* value) it yields, in order.
RelativeQname(qname, domain) ==
  IF qname = domain THEN None
  ELSE Some(SubSeq(qname, 1, Len(qname) - Len(Dot \o domain)))

EntryValues(entry, e) ==
  IF entry.form = "str"
  THEN << <<"A", entry.value>> >>
       \o (IF entry.value = Local /\ HasIPv6(e) THEN << <<"AAAA", entry.value>> >> ELSE << >>)
  ELSE entry.items

RECURSIVE ResolveValues(_, _, _)
ResolveValues(qname, values, e) ==
  IF values = << >> THEN << >>
  ELSE LET rtype == Head(values)[1]
           value2 == Head(values)[2]
           rest == ResolveValues(qname, Tail(values), e)
       IN IF rtype = "A" /\ value2 = Local
          THEN << <<qname, rtype, e.PUBLIC_IP>> >> \o rest
          ELSE IF rtype = "AAAA" /\ value2 = Local
          THEN IF e.PUBLIC_IPV6 = None THEN rest
               ELSE << <<qname, rtype, e.PUBLIC_IPV6[1]>> >> \o rest
          ELSE << <<qname, rtype, value2>> >> \o rest

RECURSIVE get_custom_records(_, _, _)
get_custom_records(domain, additional_records, e) ==
  IF additional_records = << >> THEN << >>
  ELSE LET entry == Head(additional_records)
           rest == get_custom_records(domain, Tail(additional_records), e)
       IN IF entry.qname # domain /\ ~EndsWith(entry.qname, Dot \o domain)
          THEN rest
          ELSE ResolveValues(RelativeQname(entry.qname, domain), EntryValues(entry, e), e)
               \o rest

\* lines 140-172: the NS records of a zone, the records of the primary
\* hostname, the MX and the SPF record
RECURSIVE SshfpRecords(_)
SshfpRecords(values) ==
  IF values = << >> THEN << >>
  ELSE <<Rec(None, "SSHFP", Head(values), "Optional")>> \o SshfpRecords(Tail(values))

NsRecords(e) ==
  << Rec(None, "NS", Q_ns1 \o Dot \o e.PRIMARY_HOSTNAME \o Dot, "False"),
     Rec(None, "NS", Q_ns2 \o Dot \o e.PRIMARY_HOSTNAME \o Dot, "False") >>

PrimaryRecords(e) ==
  << Rec(Some(Q_ns1), "A", e.PUBLIC_IP, "False"),
     Rec(Some(Q_ns2), "A", e.PUBLIC_IP, "False") >>
  \o (IF HasIPv6(e)
      THEN << Rec(Some(Q_ns1), "AAAA", e.PUBLIC_IPV6[1], "False"),
              Rec(Some(Q_ns2), "AAAA", e.PUBLIC_IPV6[1], "False") >>
      ELSE << >>)
  \o << Rec(None, "A", e.PUBLIC_IP, "Required") >>
  \o (IF HasIPv6(e) THEN << Rec(None, "AAAA", e.PUBLIC_IPV6[1], "Required") >> ELSE << >>)
  \o << Rec(Some(Q_tlsa), "TLSA", build_tlsa_record(e), "Recommended") >>
  \o SshfpRecords(build_sshfp_records)

\* if domain == env["PRIMARY_HOSTNAME"]
PrimaryFirst(domain, e) == domain = e.PRIMARY_HOSTNAME

\* (mutant: the NS records are emitted for a folded subdomain too)
BaseRecords_AlwaysNs(domain, e, is_zone) ==
  NsRecords(e)
  \o (IF PrimaryFirst(domain, e) THEN PrimaryRecords(e) ELSE << >>)
  \o << Rec(None, "MX", <<"10 ">> \o e.PRIMARY_HOSTNAME \o Dot, "Required"),
        Rec(None, "TXT", SpfMx, "Recommended") >>

\* lines 140-172: NS for a zone, the primary hostname's own records, MX, SPF
BaseRecords(domain, e, is_zone) ==
  (IF is_zone THEN NsRecords(e) ELSE << >>)
  \o (IF PrimaryFirst(domain, e) THEN PrimaryRecords(e) ELSE << >>)
  \o << Rec(None, "MX", <<"10 ">> \o e.PRIMARY_HOSTNAME \o Dot, "Required"),
        Rec(None, "TXT", SpfMx, "Recommended") >>

\* lines 180-185: a subzone's records under the subdomain's relative name
RECURSIVE Requalify(_, _)
Requalify(subzone, subdomain_qname) ==
  IF subzone = << >> THEN << >>
  ELSE << [Head(subzone) EXCEPT
             !.qname = IF @ = None THEN Some(subdomain_qname)
                       ELSE Some(@[1] \o Dot \o subdomain_qname)] >>
       \o Requalify(Tail(subzone), subdomain_qname)

\* lines 194-196: the user's records that do not conflict with ours
RECURSIVE AddCustom(_, _)
AddCustom(records, customs) ==
  IF customs = << >> THEN records
  ELSE LET c == Head(customs)
       IN AddCustom(IF has_rec(records, c[1], c[2], None) THEN records
                    ELSE Append(records, Rec(c[1], c[2], c[3], UserSet)),
                    Tail(customs))

\* lines 199-209: defaults, as (qname, rtype, Optional value, explanation)
Defaults(e) ==
  << <<None, "A", Some(e.PUBLIC_IP), "Required">>,
     <<Some(Q_www), "A", Some(e.PUBLIC_IP), "Optional">>,
     <<None, "AAAA", e.PUBLIC_IPV6, "Optional">>,
     <<Some(Q_www), "AAAA", e.PUBLIC_IPV6, "Optional">> >>

\* (mutant: a default is added whether or not the record is already there)
RECURSIVE AddDefaults_NoCheck(_, _, _)
AddDefaults_NoCheck(records, defaults, is_zone) ==
  IF defaults = << >> THEN records
  ELSE LET d == Head(defaults)
           skip == \/ d[3] = None
                   \/ IsBlank(d[3][1])
                   \/ (~is_zone /\ d[1] = Some(Q_www))
       IN AddDefaults_NoCheck(IF skip THEN records
                              ELSE Append(records, Rec(d[1], d[2], d[3][1], d[4])),
                              Tail(defaults), is_zone)

RECURSIVE AddDefaults(_, _, _)
AddDefaults(records, defaults, is_zone) ==
  IF defaults = << >> THEN records
  ELSE LET d == Head(defaults)
           skip == \/ d[3] = None
                   \/ IsBlank(d[3][1])
                   \/ (~is_zone /\ d[1] = Some(Q_www))
                   \/ has_rec(records, d[1], d[2], None)
       IN AddDefaults(IF skip THEN records ELSE Append(records, Rec(d[1], d[2], d[3][1], d[4])),
                      Tail(defaults), is_zone)

\* lines 212-219: the DKIM record of mail.txt and the DMARC record
DkimDmarc ==
  << Rec(Some(DkimRecordFile.name), "TXT",
         <<DkimRecordFile.chunk1, DkimRecordFile.chunk2>>, "Recommended"),
     Rec(Some(Q_dmarc), "TXT", DmarcQuarantine, "Optional") >>

\* lines 222-228: strict policy records for the names with an address
ResolvableQnames(records) ==
  {records[i].qname : i \in {j \in 1..Len(records) : records[j].rtype \in {"A", "AAAA"}}}

DmarcQname(qname) ==
  Some(Q_dmarc \o (IF qname = None THEN << >> ELSE Dot \o qname[1]))

\* (mutant: any TXT record counts as an SPF record)
LacksSpf_AnyTxt(records, qname) == ~has_rec(records, qname, "TXT", None)

\* if not has_rec(qname, "TXT", prefix="v=spf1 ")
LacksSpf(records, qname) == ~has_rec(records, qname, "TXT", Some(SpfPrefix))

RECURSIVE AddStrict(_, _)
AddStrict(records, qnames) ==
  IF qnames = << >> THEN records
  ELSE LET qname == Head(qnames)
           r1 == IF LacksSpf(records, qname)
                 THEN Append(records, Rec(qname, "TXT", SpfStrict, "Prevents"))
                 ELSE records
           r2 == IF ~has_rec(r1, DmarcQname(qname), "TXT", Some(DmarcPrefix))
                 THEN Append(r1, Rec(DmarcQname(qname), "TXT", DmarcReject, "Prevents"))
                 ELSE r1
       IN AddStrict(r2, Tail(qnames))

\* line 232: the sort key, list(reversed(qname.split("."))) or [] for the apex
RECURSIVE Split(_)
Split(s) ==
  IF \E i \in 1..Len(s) : s[i] = "."
  THEN LET i == CHOOSE k \in 1..Len(s) : s[k] = "." /\ \A j \in 1..(k - 1) : s[j] # "."
       IN <<SubSeq(s, 1, i - 1)>> \o Split(SubSeq(s, i + 1, Len(s)))
  ELSE <<s>>

SortKey(rec) == IF rec.qname = None THEN << >> ELSE Reverse(Split(rec.qname[1]))

\* k1 < k2 on Python lists of str
RECURSIVE ListLess(_, _)
ListLess(k1, k2) ==
  IF k2 = << >> THEN FALSE
  ELSE IF k1 = << >> THEN TRUE
  ELSE IF k1[1] = k2[1] THEN ListLess(Tail(k1), Tail(k2))
  ELSE StrLess(k1[1], k2[1])

\* records.sort(key=...): stable. keyed holds <<key, record>> pairs.
RECURSIVE InsertKeyed(_, _)
InsertKeyed(sorted, kr) ==
  IF sorted = << >> THEN <<kr>>
  ELSE IF ListLess(kr[1], Head(sorted)[1]) THEN <<kr>> \o sorted
  ELSE <<Head(sorted)>> \o InsertKeyed(Tail(sorted), kr)

RECURSIVE SortKeyed(_, _)
SortKeyed(records, sorted) ==
  IF records = << >> THEN sorted
  ELSE SortKeyed(Tail(records), InsertKeyed(sorted, <<SortKey(Head(records)), Head(records)>>))

RECURSIVE Unkey(_)
Unkey(keyed) == IF keyed = << >> THEN << >> ELSE <<Head(keyed)[2]>> \o Unkey(Tail(keyed))

SortRecords(records) == Unkey(SortKeyed(records, << >>))

\* build_zone(domain, all_domains, additional_records, env, is_zone).
\* all_domains is the sequence the iteration over it gives; seed is the hash
\* seed of the process (the order of all_resolvable_qnames).
RECURSIVE build_zone(_, _, _, _, _, _)
RECURSIVE SubdomainRecords(_, _, _, _)

SubdomainRecords(subdomains, domain, e, seed) ==
  IF subdomains = << >> THEN << >>
  ELSE LET subdomain == Head(subdomains)
           subdomain_qname == SubSeq(subdomain, 1, Len(subdomain) - Len(Dot \o domain))
       IN Requalify(build_zone(subdomain, << >>, << >>, e, FALSE, seed), subdomain_qname)
          \o SubdomainRecords(Tail(subdomains), domain, e, seed)

\* the records before the strict policy step (lines 135-219)
BeforeStrict(domain, all_domains, additional_records, e, is_zone, seed) ==
  LET subdomains == SelectSeq(all_domains, LAMBDA d : EndsWith(d, Dot \o domain))
      r4 == BaseRecords(domain, e, is_zone) \o SubdomainRecords(subdomains, domain, e, seed)
      r5 == AddCustom(r4, get_custom_records(domain, additional_records, e))
      r6 == AddDefaults(r5, Defaults(e), is_zone)
  IN r6 \o DkimDmarc

build_zone(domain, all_domains, additional_records, e, is_zone, seed) ==
  LET r8 == BeforeStrict(domain, all_domains, additional_records, e, is_zone, seed)
  IN SortRecords(AddStrict(r8, SetOrder(ResolvableQnames(r8), seed)))

---------------------------------------------------------------------------
(* Dates and serial numbers *)

Digits == <<"0", "1", "2", "3", "4", "5", "6", "7", "8", "9">>
DigitChar(k) == Digits[k + 1]
DigitSet == {Digits[k] : k \in 1..Len(Digits)}
IsDigit(c) == c \in DigitSet
DigitVal(c) == (CHOOSE k \in 1..Len(Digits) : Digits[k] = c) - 1
TwoDigits(n) == <<DigitChar(n \div 10), DigitChar(n % 10)>>

\* now counts half days from 2014-01-01 00:00 (the clock reads 00:00 or 12:00);
\* the year has these months.
ClockHours == <<"00", "12">>
HalfDaysPerDay == Len(ClockHours)
MonthLengths == <<31, 28, 31, 30, 31, 30, 31, 31, 30, 31, 30, 31>>
YearDigits == <<"2", "0", "1", "4">>

RECURSIVE MonthDay(_, _)
MonthDay(day, month) ==
  IF day < MonthLengths[month] THEN <<month, day + 1>>
  ELSE MonthDay(day - MonthLengths[month], month + 1)

\* t.strftime("%Y%m%d")
DateDigits(t) ==
  LET md == MonthDay(t \div HalfDaysPerDay, 1)
  IN YearDigits \o TwoDigits(md[1]) \o TwoDigits(md[2])

\* t.strftime("%Y%m%d00")
DateSerial(t) == DateDigits(t) \o <<"0", "0">>

\* datetime.strptime(stamp, "%Y%m%d%H%M%S"), in half days
RECURSIVE DaysBefore(_)
DaysBefore(month) ==
  IF month = 1 THEN 0 ELSE MonthLengths[month - 1] + DaysBefore(month - 1)

ParseTime(stamp) ==
  LET month == 10 * DigitVal(stamp[5]) + DigitVal(stamp[6])
      day == 10 * DigitVal(stamp[7]) + DigitVal(stamp[8])
      hour == 10 * DigitVal(stamp[9]) + DigitVal(stamp[10])
  IN (DaysBefore(month) + day - 1) * HalfDaysPerDay + (hour \div 12)

\* int(s)
RECURSIVE StripZeros(_)
StripZeros(s) == IF Len(s) > 1 /\ s[1] = "0" THEN StripZeros(Tail(s)) ELSE s

\* str(n + 1) for the decimal digits of n
RECURSIVE IncDigits(_)
IncDigits(s) ==
  IF s = << >> THEN <<"1">>
  ELSE LET front == SubSeq(s, 1, Len(s) - 1)
           last == s[Len(s)]
       IN IF last = "9" THEN IncDigits(front) \o <<"0">>
          ELSE front \o <<DigitChar(DigitVal(last) + 1)>>

\* (mutant: the existing serial is kept)
NextSerial_Same(existing_serial) == existing_serial

\* str(int(existing_serial) + 1)
NextSerial(existing_serial) == IncDigits(StripZeros(existing_serial))

\* existing_serial >= serial, on str
SerialNotLess(existing_serial, serial) == ~StrLess(existing_serial, serial)

---------------------------------------------------------------------------
(* write_nsd_zone, sign_zone, write_nsd_conf, write_opendkim_tables *)

Placeholder == "__SERIAL__"
SerialTail == "     ; serial number"

\* s.replace(old, new) on sequences of atoms: every occurrence, left to right
RECURSIVE ReplaceFrom(_, _, _, _)
ReplaceFrom(s, old, new, from) ==
  LET found == {i \in from..(Len(s) - Len(old) + 1) :
                  s[i] = old[1] /\ SubSeq(s, i, i + Len(old) - 1) = old}
  IN IF found = {} THEN SubSeq(s, from, Len(s))
     ELSE LET i == CHOOSE a \in found : \A b \in found : a <= b
          IN SubSeq(s, from, i - 1) \o new \o ReplaceFrom(s, old, new, i + Len(old))

ReplaceAll(s, old, new) == ReplaceFrom(s, old, new, 1)

\* lines 349-363: the zone's header, with the serial's placeholder
ZoneHeader(domain, e) ==
  <<"\n$ORIGIN ">> \o domain
  \o <<".\n$TTL 1800           ; default time to live\n\n@ IN SOA ns1.">>
  \o e.PRIMARY_HOSTNAME \o <<". hostmaster.">> \o e.PRIMARY_HOSTNAME
  \o <<". (\n           ", Placeholder, SerialTail,
       "\n           7200 ...\n           )\n">>

\* lines 371-373: a TXT value escaped and quoted
RECURSIVE EscapeTxt(_)
EscapeTxt(value) ==
  IF value = << >> THEN << >>
  ELSE (IF Head(value) = "\\" THEN <<"\\", "\\">>
        ELSE IF Head(value) = "\"" THEN <<"\\", "\"">>
        ELSE <<Head(value)>>)
       \o EscapeTxt(Tail(value))

\* lines 366-374: the records' lines
RECURSIVE RecordLines(_)
RecordLines(records) ==
  IF records = << >> THEN << >>
  ELSE LET r == Head(records)
       IN (IF r.qname # None /\ r.qname[1] # << >> THEN r.qname[1] ELSE << >>)
          \o <<"\tIN\t", r.rtype, "\t">>
          \o (IF r.rtype = "TXT" THEN <<"\"">> \o EscapeTxt(r.value) \o <<"\"">>
              ELSE r.value)
          \o <<"\n">>
          \o RecordLines(Tail(records))

RenderZone(domain, records, e) == ZoneHeader(domain, e) \o RecordLines(records)

\* Files: a zone file, and a signed zone (the zone text ldns-signzone read and
\* the RRSIG-over-SOA expiration times it wrote).
NoFile == [exists |-> FALSE, text |-> << >>]
File(text) == [exists |-> TRUE, text |-> text]
NoSigned == [exists |-> FALSE, text |-> << >>, exps |-> << >>]

\* min(expiration_times), on str
RECURSIVE MinStr(_)
MinStr(strs) ==
  IF Len(strs) = 1 THEN strs[1]
  ELSE LET m == MinStr(Tail(strs))
       IN IF StrLess(strs[1], m) THEN strs[1] ELSE m

ResignDays == 3
ValidityDays == 30

\* (mutant: only a missing or unreadable signed file forces the bump)
ForceBump_NoExpiry(sg, t) == ~sg.exists \/ Len(sg.exps) = 0

\* lines 381-402: force_bump
ForceBump(sg, t) ==
  \/ ~sg.exists
  \/ Len(sg.exps) = 0
  \/ ParseTime(MinStr(sg.exps)) - t < ResignDays * HalfDaysPerDay

\* re.search(r"(\d+)\s*;\s*serial number", existing_zone): the first run of
\* digits that the serial's comment follows, as <<first, last>>, or None
SerialTails(text) ==
  {t \in 2..Len(text) : text[t] = SerialTail /\ IsDigit(text[t - 1])}

SearchSerial(text) ==
  LET tails == SerialTails(text)
  IN IF tails = {} THEN None
     ELSE LET t == CHOOSE a \in tails : \A b \in tails : a <= b
              starts == {a \in 1..(t - 1) : \A k \in a..(t - 1) : IsDigit(text[k])}
              i == CHOOSE a \in starts : \A b \in starts : a <= b
          IN Some(<<i, t - 1>>)

ExistingSerial(file) ==
  LET m == IF file.exists THEN SearchSerial(file.text) ELSE None
  IN IF m = None THEN None ELSE Some(SubSeq(file.text, m[1][1], m[1][2]))

\* (mutant: the serial is left in the existing zone)
ClearSerial_Keep(text) == text

\* line 416: the existing zone with the serial cleared out
ClearSerial(text) ==
  LET m == SearchSerial(text)[1]
  IN ReplaceAll(text, SubSeq(text, m[1], m[2] + 1), <<Placeholder, SerialTail>>)

\* lines 404-436: write_nsd_zone, given the rendered zone: whether it wrote
\* the file, and the file afterwards
write_nsd_zone(zone, file, sg, t, force) ==
  LET force_bump == ForceBump(sg, t)
      date == DateSerial(t)
      m == IF file.exists THEN SearchSerial(file.text) ELSE None
      existing_serial == ExistingSerial(file)[1]
      serial == IF m # None /\ SerialNotLess(existing_serial, date)
                THEN NextSerial(existing_serial)
                ELSE date
  IN IF m # None /\ zone = ClearSerial(file.text) /\ ~force_bump /\ ~force
     THEN [changed |-> FALSE, file |-> file]
     ELSE [changed |-> TRUE, file |-> File(ReplaceAll(zone, <<Placeholder>>, serial))]

\* lines 515-529: ldns-signzone -e <now + 30 days> writes the signed zone
ExpiryStamp(t) ==
  DateDigits(t + ValidityDays * HalfDaysPerDay) \o <<"0", "0", "0", "0", "0", "0">>

sign_zone(file, t) == [exists |-> TRUE, text |-> file.text, exps |-> <<ExpiryStamp(t)>>]

\* lines 442-467: the text of nsd.conf for the zone files
RECURSIVE NsdZones(_)
NsdZones(zonefiles) ==
  IF zonefiles = << >> THEN << >>
  ELSE <<"\nzone:\n\tname: ">> \o Head(zonefiles)[1] \o <<"\n\tzonefile: ">>
       \o Head(zonefiles)[2] \o <<"\n">> \o NsdZones(Tail(zonefiles))

NsdConfText(zonefiles) == <<"\nserver:\n  hide-version: yes ...\n">> \o NsdZones(zonefiles)

\* lines 469-478: write_nsd_conf
write_nsd_conf(zonefiles, conf) ==
  IF conf = NsdConfText(zonefiles) THEN [changed |-> FALSE, conf |-> conf]
  ELSE [changed |-> TRUE, conf |-> NsdConfText(zonefiles)]

\* lines 563-585: the SigningTable and the KeyTable
RECURSIVE SigningTable(_)
SigningTable(zonefiles) ==
  IF zonefiles = << >> THEN << >>
  ELSE <<"*@">> \o Head(zonefiles)[1] \o <<" ">> \o Head(zonefiles)[1] \o <<"\n">>
       \o SigningTable(Tail(zonefiles))

RECURSIVE KeyTable(_)
KeyTable(zonefiles) ==
  IF zonefiles = << >> THEN << >>
  ELSE Head(zonefiles)[1] \o <<" ">> \o Head(zonefiles)[1]
       \o <<":mail:", "mail/dkim/mail.private", "\n">> \o KeyTable(Tail(zonefiles))

\* lines 588-598: one table, written if it is missing or differs
WriteTable(table, content) ==
  IF table.exists /\ table.text = content THEN [changed |-> FALSE, file |-> table]
  ELSE [changed |-> TRUE, file |-> File(content)]

\* (mutant: the tables are written but reported as unchanged)
write_opendkim_tables_Quiet(zonefiles, d) ==
  [changed |-> FALSE,
   written |-> <<"SigningTable", "KeyTable">>,
   dkim |-> [d EXCEPT !.SigningTable = File(SigningTable(zonefiles)),
                      !.KeyTable = File(KeyTable(zonefiles))]]

\* lines 554-602: without the DKIM key nothing is written and False is
\* returned; otherwise each table that is missing or differs is written and
\* the result says whether any was
write_opendkim_tables(zonefiles, d) ==
  IF ~d.key THEN [changed |-> FALSE, written |-> << >>, dkim |-> d]
  ELSE LET st == WriteTable(d.SigningTable, SigningTable(zonefiles))
           kt == WriteTable(d.KeyTable, KeyTable(zonefiles))
       IN [changed |-> st.changed \/ kt.changed,
           written |-> (IF st.changed THEN <<"SigningTable">> ELSE << >>)
                       \o (IF kt.changed THEN <<"KeyTable">> ELSE << >>),
           dkim |-> [d EXCEPT !.SigningTable = st.file, !.KeyTable = kt.file]]

---------------------------------------------------------------------------
\* The domains, inputs and bounds of the runs
RunMailUniverse == {D_ab}
FileDomains == RunMailUniverse \cup {PrimaryHostname}
D_t_a_b == <<"t">> \o Dot \o D_a_b
Hello == <<"hello">>
SerialText == <<"serial=", "__SERIAL__">>
RunSetInputs ==
  { <<D_t_a_b, "TXT", Some(Hello)>>,
    <<D_t_a_b, "TXT", Some(SerialText)>>,
    <<D_t_a_b, "TXT", None>> }
TickSteps == {1, 55}
MaxTicks == 1
MaxChanges == 1
MaxRuns == 2

(* do_dns_update *)

\* The iteration order of a set of domain names under a hash seed.
DomainOrder(S, seed) ==
  LET asc == Ascending({Some(d) : d \in S})
      names == [i \in 1..Len(asc) |-> asc[i][1]]
  IN IF seed = 0 THEN names ELSE Reverse(names)

NoRet == [op |-> "none", n |-> 0, qname |-> << >>, rtype |-> "", value |-> None,
          result |-> "", before |-> << >>]

\* What a run does is logged in order: "zone" (what write_nsd_zone found for
\* the zone), "write" (the zone file written; old and new are the serials),
\* "sign" (sign_zone called; old is the serial of the signed zone it
\* replaces), "sign_failed", "nsdconf", "table", "restart_nsd",
\* "restart_opendkim".
Ev(ev, domain) ==
  [ev |-> ev, domain |-> domain, old |-> None, new |-> << >>, date |-> << >>,
   same |-> FALSE, expiring |-> FALSE]

\* The new rendering has the content of the file, the serial aside.
SameContent(zone, file) ==
  /\ file.exists
  /\ ExistingSerial(file) # None
  /\ ReplaceAll(zone, <<Placeholder>>, ExistingSerial(file)[1]) = file.text

\* The signed zone's earliest RRSIG-over-SOA expiration is less than 3 days off.
Expiring(sg, t) ==
  /\ sg.exists
  /\ Len(sg.exps) > 0
  /\ \E i \in 1..Len(sg.exps) : ParseTime(sg.exps[i]) - t < ResignDays * HalfDaysPerDay

SignedFresh(sg, t) ==
  /\ sg.exists
  /\ Len(sg.exps) > 0
  /\ \A i \in 1..Len(sg.exps) : ParseTime(sg.exps[i]) - t >= ResignDays * HalfDaysPerDay

ZoneEv(domain, zone, file, sg, t) ==
  [Ev("zone", domain) EXCEPT !.same = SameContent(zone, file), !.expiring = Expiring(sg, t)]

WriteEv(domain, file, newfile, t) ==
  [Ev("write", domain) EXCEPT !.old = ExistingSerial(file),
                              !.new = ExistingSerial(newfile)[1],
                              !.date = DateSerial(t)]

SignEv(domain, sg, newfile) ==
  [Ev("sign", domain) EXCEPT !.old = ExistingSerial(sg), !.new = ExistingSerial(newfile)[1]]

NoRun ==
  [force |-> FALSE, seed |-> 0, domains |-> {}, zonefiles |-> << >>,
   additional_records |-> << >>, i |-> 1, updated_domains |-> << >>, n |-> 0]

Inputs == [domains |-> get_dns_domains(env, mail_domains), store |-> custom, env |-> env]

\* line 71 and lines 349-374: the zone's records, rendered
RunZone(d) ==
  RenderZone(d, build_zone(d, DomainOrder(run.domains, run.seed),
                           run.additional_records, env, TRUE, run.seed), env)

\* (mutant: the nameserver is restarted on every run)
RestartNsd_Always(updated_domains) == TRUE

\* line 115: if len(updated_domains) > 0
RestartNsd(updated_domains) == Len(updated_domains) > 0

RECURSIVE Join(_)
Join(names) ==
  IF Len(names) = 0 THEN << >>
  ELSE IF Len(names) = 1 THEN names[1]
  ELSE names[1] \o <<",">> \o Join(Tail(names))

\* lines 58-64, with the force flag one of forces
BeginRun(forces) ==
  /\ pc = "idle"
  /\ \E force \in forces, seed \in HashSeeds, order \in ZoneOrders(env, mail_domains) :
       LET zonefiles == get_dns_zones(env, mail_domains, order)
       IN /\ run' = [force |-> force, seed |-> seed,
                     domains |-> get_dns_domains(env, mail_domains),
                     zonefiles |-> zonefiles, additional_records |-> custom,
                     i |-> 1, updated_domains |-> << >>, n |-> run.n + 1]
          /\ hist' = [hist EXCEPT
                        !.last = hist.done, !.done = None, !.cur = Inputs, !.force = force,
                        !.fresh = \A k \in 1..Len(zonefiles) :
                                    SignedFresh(signed[zonefiles[k][1]], now)]
  /\ pc' = "zones"
  /\ log' = << >>
  /\ ret' = [op |-> "do_dns_update", updated_domains |-> << >>, result |-> <<"running">>]
  /\ UNCHANGED <<env, mail_domains, custom, now, zonefile, signed, nsdconf, dkim>>

StartRun ==
  /\ run.n < MaxRuns
  /\ BeginRun(BOOLEAN)

\* lines 69-99, one zone: the zone is left alone, or written and signed
ZoneStep ==
  /\ pc = "zones"
  /\ run.i <= Len(run.zonefiles)
  /\ LET d == run.zonefiles[run.i][1]
         zone == RunZone(d)
         w == write_nsd_zone(zone, zonefile[d], signed[d], now, run.force)
     IN IF ~w.changed
        THEN /\ log' = Append(log, ZoneEv(d, zone, zonefile[d], signed[d], now))
             /\ run' = [run EXCEPT !.i = @ + 1]
             /\ UNCHANGED <<zonefile, signed>>
        ELSE /\ zonefile' = [zonefile EXCEPT ![d] = w.file]
             /\ signed' = [signed EXCEPT ![d] = sign_zone(w.file, now)]
             /\ log' = log \o << ZoneEv(d, zone, zonefile[d], signed[d], now),
                                 WriteEv(d, zonefile[d], w.file, now),
                                 SignEv(d, signed[d], w.file) >>
             /\ run' = [run EXCEPT !.i = @ + 1,
                                   !.updated_domains = Append(@, d)]
  /\ UNCHANGED <<env, mail_domains, custom, now, nsdconf, dkim, pc, hist, ret>>

\* lines 75-99, one zone: the zone is written and sign_zone raises
ZoneStepSignFails ==
  /\ pc = "zones"
  /\ run.i <= Len(run.zonefiles)
  /\ LET d == run.zonefiles[run.i][1]
         zone == RunZone(d)
         w == write_nsd_zone(zone, zonefile[d], signed[d], now, run.force)
     IN /\ w.changed
        /\ zonefile' = [zonefile EXCEPT ![d] = w.file]
        /\ log' = log \o << ZoneEv(d, zone, zonefile[d], signed[d], now),
                            WriteEv(d, zonefile[d], w.file, now),
                            SignEv(d, signed[d], w.file),
                            Ev("sign_failed", d) >>
        /\ run' = [NoRun EXCEPT !.n = run.n]
  /\ pc' = "idle"
  /\ hist' = [hist EXCEPT !.done = None]
  /\ ret' = [op |-> "do_dns_update", updated_domains |-> << >>, result |-> <<"error">>]
  /\ UNCHANGED <<env, mail_domains, custom, now, signed, nsdconf, dkim>>

\* lines 104-130
FinishRun ==
  /\ pc = "zones"
  /\ run.i > Len(run.zonefiles)
  /\ LET zonefiles == [k \in 1..Len(run.zonefiles) |->
                         <<run.zonefiles[k][1], run.zonefiles[k][2] \o SignedSuffix>>]
         c == write_nsd_conf(zonefiles, nsdconf)
         upd1 == IF c.changed /\ Len(run.updated_domains) = 0
                 THEN << <<"DNS configuration">> >>
                 ELSE run.updated_domains
         t == write_opendkim_tables(zonefiles, dkim)
         upd2 == IF t.changed /\ Len(upd1) = 0
                 THEN << <<"OpenDKIM configuration">> >>
                 ELSE upd1
     IN /\ nsdconf' = c.conf
        /\ dkim' = t.dkim
        /\ log' = log
                  \o (IF c.changed THEN <<Ev("nsdconf", << >>)>> ELSE << >>)
                  \o (IF RestartNsd(upd1) THEN <<Ev("restart_nsd", << >>)>> ELSE << >>)
                  \o [k \in 1..Len(t.written) |-> Ev("table", <<t.written[k]>>)]
                  \o (IF t.changed THEN <<Ev("restart_opendkim", << >>)>> ELSE << >>)
        /\ run' = [NoRun EXCEPT !.n = run.n]
        /\ ret' = [op |-> "do_dns_update", updated_domains |-> upd2,
                   result |-> IF Len(upd2) = 0 THEN << >>
                              ELSE <<"updated DNS: ">> \o Join(upd2) \o <<"\n">>]
  /\ pc' = "idle"
  /\ hist' = [hist EXCEPT !.done = Some(hist.cur)]
  /\ UNCHANGED <<env, mail_domains, custom, now, zonefile, signed>>

\* Between runs: time passes, a mail domain comes or goes, a custom record
\* is set or deleted.
Tick ==
  /\ pc = "idle"
  /\ hist.ticks < MaxTicks
  /\ \E d \in TickSteps : now' = now + d
  /\ hist' = [hist EXCEPT !.ticks = @ + 1]
  /\ UNCHANGED <<env, mail_domains, custom, zonefile, signed, nsdconf, dkim, pc, run, log, ret>>

ChangeMailDomains ==
  /\ pc = "idle"
  /\ hist.changes < MaxChanges
  /\ \E d \in RunMailUniverse :
       mail_domains' = IF d \in mail_domains THEN mail_domains \ {d}
                       ELSE mail_domains \cup {d}
  /\ hist' = [hist EXCEPT !.changes = @ + 1]
  /\ UNCHANGED <<env, custom, now, zonefile, signed, nsdconf, dkim, pc, run, log, ret>>

\* OpenDKIM is set up: mail/dkim/mail.private appears
InstallDkimKey ==
  /\ pc = "idle"
  /\ ~dkim.key
  /\ dkim' = [dkim EXCEPT !.key = TRUE]
  /\ UNCHANGED <<env, mail_domains, custom, now, zonefile, signed, nsdconf, pc, run, log, hist, ret>>

SetCustomRecord ==
  /\ pc = "idle"
  /\ \E in \in RunSetInputs, order \in ZoneOrders(env, mail_domains) :
       custom' = set_custom_dns_record(custom, in[1], in[2], in[3],
                                       get_dns_zones(env, mail_domains, order)).config
  /\ UNCHANGED <<env, mail_domains, now, zonefile, signed, nsdconf, dkim, pc, run, log, hist, ret>>

\* The box at the start: nsd.conf as installed, OpenDKIM set up or not, no
\* zone files and no OpenDKIM tables.
Init ==
  /\ env \in {e \in Envs : e.PUBLIC_IPV6 = None}
  /\ mail_domains \in SUBSET RunMailUniverse
  /\ custom = << >>
  /\ now = 0
  /\ zonefile = [d \in FileDomains |-> NoFile]
  /\ signed = [d \in FileDomains |-> NoSigned]
  /\ nsdconf = <<"# nsd.conf as installed">>
  /\ dkim \in {[key |-> k, SigningTable |-> NoFile, KeyTable |-> NoFile] : k \in BOOLEAN}
  /\ pc = "idle"
  /\ run = NoRun
  /\ log = << >>
  /\ hist = [last |-> None, done |-> None, cur |-> Inputs, fresh |-> FALSE, force |-> FALSE,
             ticks |-> 0, changes |-> 0]
  /\ ret = NoRet

Next ==
  \/ StartRun
  \/ ZoneStep
  \/ ZoneStepSignFails
  \/ FinishRun
  \/ Tick
  \/ ChangeMailDomains
  \/ InstallDkimKey
  \/ SetCustomRecord

Spec == Init /\ [][Next]_vars

---------------------------------------------------------------------------
(* Specifications of the pure functions: the inputs are drawn in the initial
   state and the actions call the function. *)

\* The part of the state the pure functions do not use.
Quiet ==
  /\ now = 0
  /\ zonefile = << >>
  /\ signed = << >>
  /\ nsdconf = << >>
  /\ dkim = << >>
  /\ pc = "idle"
  /\ run = << >>
  /\ log = << >>
  /\ hist = << >>

QuietUnchanged ==
  UNCHANGED <<env, mail_domains, now, zonefile, signed, nsdconf, dkim, pc, run, log, hist>>

\* get_dns_zones
InitZones ==
  /\ env \in Envs
  /\ mail_domains \in SUBSET MailUniverse
  /\ custom = << >>
  /\ ret = NoRet
  /\ Quiet

CallGetDnsZones ==
  /\ ret.op = "none"
  /\ \E order \in ZoneOrders(env, mail_domains) :
       ret' = [op |-> "get_dns_zones", zones |-> get_dns_zones(env, mail_domains, order)]
  /\ UNCHANGED custom
  /\ QuietUnchanged

NextZones == CallGetDnsZones

SpecZones == InitZones /\ [][NextZones]_vars

\* set_custom_dns_record
Q_www_b == Q_www \o Dot \o D_b
SetNames == {Q_www_b, D_c}
SetRtypes == {"A", "txt", "AAAA", "MX"}
SetValues == {None, Some(IP4), Some(IP6), Some(LiteralValue)}
MaxCalls == 2

\* Stores the calls start from: empty, written by hand, or left by earlier calls.
InitStores ==
  { << >>,
    <<StrEntry(D_a_b, Local)>>,
    <<StrEntry(Q_www_b, IP4b)>>,
    <<DictEntry(Q_www_b, <<<<"TXT", LiteralValue>>>>)>>,
    <<DictEntry(Q_www_b, <<<<"A", IP4b>>, <<"TXT", Hello>>>>)>>,
    <<DictEntry(D_b, <<<<"TXT", Hello>>>>), StrEntry(Q_www_b, IP4b)>> }

InitStore ==
  /\ env \in {e \in Envs : e.PUBLIC_IPV6 = None}
  /\ mail_domains = {D_b}
  /\ custom \in InitStores
  /\ ret = NoRet
  /\ Quiet

CallOf(r) ==
  [op |-> r.op, qname |-> r.qname, rtype |-> r.rtype, value |-> r.value,
   result |-> r.result, before |-> r.before]

CallSet ==
  /\ ret.n < MaxCalls
  /\ \E qname \in SetNames, rtype \in SetRtypes, value \in SetValues,
        order \in ZoneOrders(env, mail_domains) :
       LET r == set_custom_dns_record(custom, qname, rtype, value,
                                      get_dns_zones(env, mail_domains, order))
       IN /\ custom' = r.config
          /\ ret' = [op |-> "set", n |-> ret.n + 1, qname |-> qname, rtype |-> rtype,
                     value |-> value, result |-> r.result, before |-> custom,
                     prev |-> CallOf(ret)]
  /\ QuietUnchanged

NextStore == CallSet

SpecStore == InitStore /\ [][NextStore]_vars

\* build_zone
BuildMailUniverse == {D_b, D_c_b, D_ca_b, D_ab}
UserSpf == SpfPrefix \o <<"ip4:198.51.100.7 -all">>
MaxStore == 2

BuildEntries ==
  { StrEntry(D_b, IP4b),
    StrEntry(D_b, Local),
    DictEntry(D_b, <<<<"TXT", UserSpf>>, <<"A", IP4b>>>>),
    StrEntry(D_a_b, IP4b),
    DictEntry(Q_www_b, <<<<"A", IP4b>>, <<"TXT", UserSpf>>>>),
    DictEntry(Q_www_b, <<<<"TXT", Hello>>>>),
    DictEntry(D_c_b, <<<<"AAAA", Local>>>>),
    StrEntry(Q_www_b, << >>) }

\* The stores of at most n of these entries, one per name, in any key order.
RECURSIVE StoresUpTo(_)
StoresUpTo(n) ==
  IF n = 0 THEN { << >> }
  ELSE StoresUpTo(n - 1)
       \cup { Append(st, en) : st \in {x \in StoresUpTo(n - 1) : Len(x) = n - 1},
                               en \in BuildEntries }

BuildStores ==
  {st \in StoresUpTo(MaxStore) :
     \A i \in 1..Len(st), j \in 1..Len(st) : i # j => st[i].qname # st[j].qname}

InitBuild ==
  /\ env \in Envs
  /\ mail_domains \in SUBSET BuildMailUniverse
  /\ custom \in BuildStores
  /\ ret = NoRet
  /\ Quiet

CallBuildZone ==
  /\ ret.op = "none"
  /\ \E order \in ZoneOrders(env, mail_domains), seed \in HashSeeds :
       LET zones == get_dns_zones(env, mail_domains, order)
           domains == get_dns_domains(env, mail_domains)
       IN \E i \in 1..Len(zones) :
            ret' = [op |-> "build_zone", domain |-> zones[i][1], seed |-> seed,
                    records |-> build_zone(zones[i][1], DomainOrder(domains, seed),
                                           custom, env, TRUE, seed)]
  /\ UNCHANGED custom
  /\ QuietUnchanged

NextBuild == CallBuildZone

SpecBuild == InitBuild /\ [][NextBuild]_vars

\* build_zone with overrides at _dmarc names
Q_dmarc_b == Q_dmarc \o Dot \o D_b
Q_dmarc_www_b == Q_dmarc \o Dot \o Q_www_b
UserDmarc == DmarcPrefix \o <<"p=none">>
PolicyMailUniverse == {D_b}

PolicyEntries ==
  { DictEntry(Q_dmarc_b, <<<<"TXT", UserDmarc>>>>),
    DictEntry(Q_dmarc_b, <<<<"TXT", Hello>>>>),
    StrEntry(Q_www_b, IP4b),
    DictEntry(Q_www_b, <<<<"A", IP4b>>, <<"TXT", UserSpf>>>>),
    StrEntry(Q_dmarc_www_b, IP4b),
    DictEntry(Q_dmarc_www_b, <<<<"TXT", UserDmarc>>>>),
    DictEntry(Q_dmarc_www_b, <<<<"TXT", UserDmarc>>, <<"A", IP4b>>>>) }

PolicyStores ==
  { << >> } \cup { <<en>> : en \in PolicyEntries }
  \cup { st \in {<<e1, e2>> : e1 \in PolicyEntries, e2 \in PolicyEntries} :
            st[1].qname # st[2].qname }

InitPolicy ==
  /\ env \in Envs
  /\ mail_domains \in SUBSET PolicyMailUniverse
  /\ custom \in PolicyStores
  /\ ret = NoRet
  /\ Quiet

NextPolicy == CallBuildZone

SpecPolicy == InitPolicy /\ [][NextPolicy]_vars

\* do_dns_update after a failure: three runs without the force flag, the
\* overrides changing between them, no time passing
MaxResumeRuns == 3

InitResume ==
  /\ Init
  /\ mail_domains = {}
  /\ dkim.key

ResumeRun ==
  /\ run.n < MaxResumeRuns
  /\ BeginRun({FALSE})

NextResume ==
  \/ ResumeRun
  \/ ZoneStep
  \/ ZoneStepSignFails
  \/ FinishRun
  \/ SetCustomRecord

SpecResume == InitResume /\ [][NextResume]_vars

\* do_dns_update run periodically: a run completes, without the force flag,
\* at every instant the clock stops at, and the clock moves on by less than
\* 3 days; a run may fail in sign_zone once before it is repeated
PeriodSteps == {1, 5}
MaxTime == 62

InitPeriodic ==
  /\ Init
  /\ mail_domains = {}
  /\ dkim.key

CompletedHere == ret.op = "do_dns_update" /\ hist.done # None

PeriodicRun ==
  /\ ~CompletedHere
  /\ BeginRun({FALSE})

PeriodicSignFails ==
  /\ hist.last # None
  /\ ZoneStepSignFails

PeriodicTick ==
  /\ pc = "idle"
  /\ CompletedHere
  /\ \E d \in PeriodSteps :
       /\ d < ResignDays * HalfDaysPerDay
       /\ now + d <= MaxTime
       /\ now' = now + d
  /\ ret' = NoRet
  /\ UNCHANGED <<env, mail_domains, custom, zonefile, signed, nsdconf, dkim, pc, run, log, hist>>

NextPeriodic ==
  \/ PeriodicRun
  \/ ZoneStep
  \/ PeriodicSignFails
  \/ FinishRun
  \/ PeriodicTick

SpecPeriodic == InitPeriodic /\ [][NextPeriodic]_vars

\* write_nsd_zone: the zone file on disk carries any serial, the signed zone
\* is missing, unreadable, signed on the first day, or carries two signatures
\* made a day apart
WriteSerials ==
  { <<"9">>,
    DateSerial(0),
    NextSerial(DateSerial(0)),
    DateSerial(0 + 31 * HalfDaysPerDay),
    <<"2", "0", "1", "3", "1", "2", "3", "1", "0", "0">>,
    <<"1", "0", "0", "0", "0", "0", "0", "0", "0", "0", "0">> }
WriteTimes == {0, 2, 54, 56}
WriteEnv == CHOOSE e \in Envs : e.PUBLIC_IPV6 = None
WriteRecords == << Rec(None, "A", IP4, "Required") >>
OldRecords == << Rec(None, "A", IP4b, "Required") >>
OnDisk(records, serial) ==
  File(ReplaceAll(RenderZone(PrimaryHostname, records, WriteEnv), <<Placeholder>>, serial))
WriteFiles ==
  {NoFile} \cup { OnDisk(r, sn) : r \in {WriteRecords, OldRecords}, sn \in WriteSerials }
WriteSigned ==
  { NoSigned,
    [exists |-> TRUE, text |-> << >>, exps |-> << >>],
    sign_zone(OnDisk(WriteRecords, DateSerial(0)), 0),
    [exists |-> TRUE, text |-> << >>, exps |-> <<ExpiryStamp(2), ExpiryStamp(0)>>] }

InitWrite ==
  /\ env = WriteEnv
  /\ mail_domains = {}
  /\ custom = << >>
  /\ now \in WriteTimes
  /\ zonefile \in [{PrimaryHostname} -> WriteFiles]
  /\ signed \in [{PrimaryHostname} -> WriteSigned]
  /\ nsdconf = << >>
  /\ dkim = << >>
  /\ pc = "idle"
  /\ run \in {[NoRun EXCEPT !.force = f] : f \in BOOLEAN}
  /\ log = << >>
  /\ hist = << >>
  /\ ret = NoRet

CallWriteNsdZone ==
  /\ ret.op = "none"
  /\ LET d == PrimaryHostname
         zone == RenderZone(d, WriteRecords, env)
         w == write_nsd_zone(zone, zonefile[d], signed[d], now, run.force)
     IN /\ zonefile' = [zonefile EXCEPT ![d] = w.file]
        /\ ret' = [op |-> "write_nsd_zone", changed |-> w.changed,
                   before |-> zonefile[d],
                   old |-> ExistingSerial(zonefile[d]),
                   new |-> ExistingSerial(w.file),
                   date |-> DateSerial(now)]
  /\ UNCHANGED <<env, mail_domains, custom, now, signed, nsdconf, dkim, pc, run, log, hist>>

NextWrite == CallWriteNsdZone

SpecWrite == InitWrite /\ [][NextWrite]_vars

---------------------------------------------------------------------------
(* What the claims speak of *)

\* d is a strict subdomain of a: a's labels are a proper suffix of d's labels.
StrictSubdomain(d, a) ==
  LET ld == Split(d)
      la == Split(a)
  IN /\ Len(la) < Len(ld)
     /\ SubSeq(ld, Len(ld) - Len(la) + 1, Len(ld)) = la

Covers(a, d) == d = a \/ StrictSubdomain(d, a)

ReturnedApexes == {ret.zones[i][1] : i \in 1..Len(ret.zones)}

\* The zone apexes of the current configuration.
ManagedApexes ==
  AdmitZones(CHOOSE o \in ZoneOrders(env, mail_domains) : TRUE, {})

UnderManagedZone(qname) == \E a \in ManagedApexes : Covers(a, qname)

\* The allow-list of record types and the values they take.
ValidRecord(rtype, value) ==
  /\ rtype \in {"A", "AAAA", "CNAME", "TXT"}
  /\ rtype = "A" => value \in IPv4Literals
  /\ rtype = "AAAA" => value \in IPv6Literals

---------------------------------------------------------------------------
(* C1: no apex returned by get_dns_zones is a strict subdomain of another
   returned apex, and every input domain (the primary hostname included) is
   equal to or a strict subdomain of exactly one returned apex. *)
C1_ZonesCover ==
  ret.op = "get_dns_zones" =>
    /\ \A a \in ReturnedApexes, b \in ReturnedApexes : ~StrictSubdomain(a, b)
    /\ \A d \in get_dns_domains(env, mail_domains) :
         Cardinality({a \in ReturnedApexes : Covers(a, d)}) = 1

\* get_dns_zones folded a domain two levels down into an apex, beside other apexes.
C1_Witness ==
  /\ ret.op = "get_dns_zones"
  /\ Cardinality(ReturnedApexes) >= 3
  /\ D_b \in ReturnedApexes
  /\ D_ca_b \in mail_domains
  /\ D_ab \in ReturnedApexes

(* C10: for a name under a managed zone that is absent from the store and a
   valid (rtype, value), set(name, rtype, value) and then set(name, rtype,
   delete) both return changed=true and leave the store equal to the store
   before the two calls, without an entry for the name. *)
SetThenDelete ==
  /\ ret.op = "set"
  /\ ret.prev.op = "set"
  /\ ret.qname = ret.prev.qname
  /\ Upper(ret.rtype) = Upper(ret.prev.rtype)
  /\ ret.value = None
  /\ ret.prev.value # None
  /\ UnderManagedZone(ret.qname)
  /\ ~InConfig(ret.prev.before, ret.qname)
  /\ ValidRecord(Upper(ret.prev.rtype), ret.prev.value[1])

C10_SetThenDeleteRoundTrip ==
  SetThenDelete =>
    /\ ret.prev.result = "True"
    /\ ret.result = "True"
    /\ custom = ret.prev.before
    /\ ~InConfig(custom, ret.qname)

\* a TXT record set on www.b, beside another name's entry, and deleted again
C10_Witness ==
  /\ SetThenDelete
  /\ ret.rtype = "txt"
  /\ ret.qname = Q_www_b
  /\ Len(ret.prev.before) = 1
  /\ ret.result = "True"

\* The user's A value for a name: None, or Some(value) from the short form or
\* from the mapping's A entry.
OverrideA(config, name) ==
  IF ~InConfig(config, name) THEN None
  ELSE IF Lookup(config, name).form = "str" THEN Some(Lookup(config, name).value)
  ELSE GetItem(Lookup(config, name).items, "A")

ApexA(records) ==
  {i \in 1..Len(records) : records[i].qname = None /\ records[i].rtype = "A"}

TxtWithPrefix(records, qname, prefix) ==
  {i \in 1..Len(records) :
     /\ records[i].qname = qname
     /\ records[i].rtype = "TXT"
     /\ StartsWith(records[i].value, prefix)}

(* C8, as stated: for every zone apex, the primary hostname included, and every
   override (apex, A) with value v, build_zone's list has exactly one A record
   at the apex, with value v, annotated as set by the user. *)
C8_OverrideAtEveryApex ==
  (ret.op = "build_zone" /\ OverrideA(custom, ret.domain) # None) =>
    /\ Cardinality(ApexA(ret.records)) = 1
    /\ \A i \in ApexA(ret.records) :
         /\ ret.records[i].value = OverrideA(custom, ret.domain)[1]
         /\ ret.records[i].explanation = UserSet

(* C8, amended: for every zone apex other than the primary hostname and every
   override (apex, A) with value v, build_zone's list has exactly one A record
   at the apex, annotated as set by the user, whose value is v, or the box's
   public IPv4 address when v is "local"; the default A record is absent. *)
C8_OverridePrecedence ==
  (/\ ret.op = "build_zone"
   /\ OverrideA(custom, ret.domain) # None
   /\ ret.domain # env.PRIMARY_HOSTNAME) =>
    /\ Cardinality(ApexA(ret.records)) = 1
    /\ \A i \in ApexA(ret.records) :
         /\ ret.records[i].value =
              (IF OverrideA(custom, ret.domain)[1] = Local THEN env.PUBLIC_IP
               ELSE OverrideA(custom, ret.domain)[1])
         /\ ret.records[i].explanation = UserSet

\* the zone b built with the mapping-form override A = 198.51.100.7 at b
C8_Witness ==
  /\ ret.op = "build_zone"
  /\ ret.domain = D_b
  /\ InConfig(custom, D_b)
  /\ Lookup(custom, D_b).form = "dict"
  /\ \E i \in ApexA(ret.records) : ret.records[i].value = IP4b

(* C9: in every list build_zone returns, every name with an A or AAAA record
   has an SPF TXT record at that name and a DMARC TXT record at _dmarc.<name>,
   the strict SPF record is added by the strict policy step exactly for the
   names with an address that had no SPF TXT record before that step, and a
   name with an SPF record of its own never has the strict one. *)
RecordsBeforeStrict ==
  BeforeStrict(ret.domain, DomainOrder(get_dns_domains(env, mail_domains), ret.seed),
               custom, env, TRUE, ret.seed)

StrictSpfAt(records, qname) ==
  \E i \in 1..Len(records) :
    records[i] = Rec(qname, "TXT", SpfStrict, "Prevents")

Qnames(records) == {records[i].qname : i \in 1..Len(records)}

C9_SpfDmarcBackstop ==
  ret.op = "build_zone" =>
    /\ \A q \in ResolvableQnames(ret.records) :
         /\ TxtWithPrefix(ret.records, q, SpfPrefix) # {}
         /\ TxtWithPrefix(ret.records, DmarcQname(q), DmarcPrefix) # {}
    /\ \A q \in Qnames(ret.records) :
         (StrictSpfAt(ret.records, q) /\ ~StrictSpfAt(RecordsBeforeStrict, q)) <=>
           (/\ q \in ResolvableQnames(RecordsBeforeStrict)
            /\ TxtWithPrefix(RecordsBeforeStrict, q, SpfPrefix) = {})
    /\ \A q \in Qnames(ret.records) :
         (\E i \in TxtWithPrefix(ret.records, q, SpfPrefix) :
            ret.records[i].explanation # "Prevents")
         => ~StrictSpfAt(ret.records, q)

\* www.b has the user's SPF record and keeps it alone; ns1.a has none and gets
\* the strict one
C9_Witness ==
  /\ ret.op = "build_zone"
  /\ ret.domain = D_b
  /\ \E i \in 1..Len(ret.records) :
       ret.records[i] = Rec(Some(Q_www), "TXT", UserSpf, UserSet)
  /\ Some(Q_www) \in ResolvableQnames(ret.records)
  /\ ~StrictSpfAt(ret.records, Some(Q_www))
  /\ StrictSpfAt(ret.records, Some(Q_ns1 \o Dot \o <<"a">>))


\* Numbers as digit strings: a < b, a >= b, a + 1
NumLess(a, b) ==
  LET x == StripZeros(a)
      y == StripZeros(b)
  IN IF Len(x) # Len(y) THEN Len(x) < Len(y) ELSE StrLess(x, y)
NumSucc(a) == IncDigits(StripZeros(a))
NumEq(a, b) == StripZeros(a) = StripZeros(b)

Rewrote == ret.op = "write_nsd_zone" /\ ret.changed

\* C3: whenever write_nsd_zone rewrites a zone file that already carried a
\* numeric serial S, of any number of digits, the serial it writes is
\* numerically strictly greater than S.
C3_SerialStrictlyIncreases ==
  (Rewrote /\ ret.old # None) => NumLess(ret.old[1], ret.new[1])

\* C4: the serial written is the date-based candidate D when there was no
\* previous file; with a previous serial S it is S+1 if S >= D as numbers and
\* D otherwise.
C4_SerialIsMaxOfDateAndSuccessor ==
  Rewrote =>
    IF ret.old = None THEN ret.new[1] = ret.date
    ELSE IF ~NumLess(ret.old[1], ret.date)
         THEN NumEq(ret.new[1], NumSucc(ret.old[1]))
         ELSE ret.new[1] = ret.date

\* The events of the run in the log
Events(ev) == {k \in 1..Len(log) : log[k].ev = ev}
Range(seq) == {seq[k] : k \in 1..Len(seq)}
RunOver == pc = "idle" /\ ret.op = "do_dns_update"
RunCompleted == RunOver /\ hist.done # None
Effects == {"write", "sign", "nsdconf", "table", "restart_nsd", "restart_opendkim"}

\* C2: a run that follows a completed run, with the same domains, overrides
\* and box configuration, no force flag and every signature 3 days or more
\* from expiry, writes no zone file, nsd.conf or DKIM table, signs no zone,
\* restarts no service and returns the empty result.
C2_SecondRunIsQuiet ==
  (/\ RunCompleted
   /\ hist.last # None
   /\ hist.last = hist.done
   /\ ~hist.force
   /\ hist.fresh)
  => /\ \A k \in 1..Len(log) : log[k].ev \notin Effects
     /\ ret.result = << >>

\* C5: a zone whose file has the content of the new rendering, the serial
\* aside, and whose signed zone expires in less than 3 days is rewritten with
\* a greater serial, reported as updated, and signed.
C5_ExpiryForcesResign ==
  \A k \in Events("zone") :
    (log[k].same /\ log[k].expiring) =>
      /\ k + 2 <= Len(log)
      /\ log[k + 1].ev = "write" /\ log[k + 1].domain = log[k].domain
      /\ NumLess(log[k + 1].old[1], log[k + 1].new)
      /\ log[k + 2].ev = "sign" /\ log[k + 2].domain = log[k].domain
      /\ pc = "zones" => log[k].domain \in Range(run.updated_domains)
      /\ RunCompleted => log[k].domain \in Range(ret.updated_domains)

C5_Witness ==
  \E k \in Events("zone") :
    /\ log[k].same /\ log[k].expiring
    /\ RunCompleted
    /\ ~hist.force

\* C6: in a run the signer is invoked for a zone exactly when the zone's file
\* was rewritten in that run, right after the write, and the serial it signs
\* is not the serial of the signed zone it replaces.
C6_SignOnlyOnChange ==
  /\ \A k \in Events("sign") :
       /\ k > 1
       /\ log[k - 1].ev = "write" /\ log[k - 1].domain = log[k].domain
       /\ log[k - 1].new = log[k].new
       /\ log[k].old # Some(log[k].new)
  /\ \A k \in Events("write") :
       /\ k < Len(log)
       /\ log[k + 1].ev = "sign" /\ log[k + 1].domain = log[k].domain
       /\ log[k].old # Some(log[k].new)
  /\ \A k \in Events("zone") :
       (k < Len(log) /\ log[k + 1].ev = "write") => log[k].domain = log[k + 1].domain

C6_Witness ==
  /\ RunCompleted
  /\ \E k \in Events("sign") : log[k].old # None
  /\ \E k \in Events("zone") : k = Len(log) \/ log[k + 1].ev # "write"

\* C7: in a run nsd is restarted at most once and only if a zone file or
\* nsd.conf was written, OpenDKIM is restarted at most once and only if one of
\* its tables was written, and a run that wrote nothing restarts nothing.
C7_RestartOnlyOnChange ==
  /\ Cardinality(Events("restart_nsd")) <= 1
  /\ Cardinality(Events("restart_opendkim")) <= 1
  /\ Events("restart_nsd") # {} => (Events("write") \cup Events("nsdconf")) # {}
  /\ Events("restart_opendkim") # {} => Events("table") # {}
  /\ (Events("write") \cup Events("nsdconf") \cup Events("table")) = {}
       => (Events("restart_nsd") \cup Events("restart_opendkim")) = {}

C7_Witness ==
  /\ RunCompleted
  /\ Events("restart_nsd") # {}
  /\ Events("restart_opendkim") = {}
  /\ Events("nsdconf") = {}

---------------------------------------------------------------------------
(* Claims about set_custom_dns_record, on the last call (SpecStore) *)

\* What a store holds for (qname, rtype): Some(value) or None
StoredValue(config, qname, rtype) ==
  IF ~InConfig(config, qname) THEN None
  ELSE LET e == Lookup(config, qname)
       IN IF e.form = "str" THEN (IF rtype = "A" THEN Some(e.value) ELSE None)
          ELSE GetItem(e.items, rtype)

RecordCount(config, qname) ==
  IF ~InConfig(config, qname) THEN 0
  ELSE IF Lookup(config, qname).form = "str" THEN 1
  ELSE Len(Lookup(config, qname).items)

NoEmptyMapping(config) ==
  \A i \in 1..Len(config) : config[i].form = "dict" => Len(config[i].items) > 0

SetCall == ret.op = "set"
AllowList == {"A", "AAAA", "CNAME", "TXT"}

\* C11: deleting a record the store does not hold (name absent, short form
\* and type not A, mapping form without the type) leaves the store as it was,
\* and on a name under a managed zone the call returns unchanged.
C11_DeleteMissingIsNoOp ==
  (SetCall /\ ret.value = None
           /\ StoredValue(ret.before, ret.qname, Upper(ret.rtype)) = None)
  => /\ custom = ret.before
     /\ UnderManagedZone(ret.qname) => ret.result = "False"

\* a TXT delete on a short-form name
C11_Witness ==
  /\ SetCall /\ ret.value = None
  /\ InConfig(ret.before, ret.qname)
  /\ Lookup(ret.before, ret.qname).form = "str"
  /\ Upper(ret.rtype) = "TXT"
  /\ ret.result = "False"

\* C12: no name of the store maps to an empty mapping, and a name whose only
\* record is deleted is absent from the store.
C12_NoEmptyEntries ==
  /\ NoEmptyMapping(custom)
  /\ (SetCall /\ ret.value = None /\ ret.result = "True"
              /\ RecordCount(ret.before, ret.qname) = 1)
     => ~InConfig(custom, ret.qname)

\* the only record of a mapping-form name is deleted
C12_Witness ==
  /\ SetCall /\ ret.value = None /\ ret.result = "True"
  /\ InConfig(ret.before, ret.qname)
  /\ Lookup(ret.before, ret.qname).form = "dict"
  /\ RecordCount(ret.before, ret.qname) = 1
  /\ ~InConfig(custom, ret.qname)

\* C13: a call that fails validation (name under no managed zone, a value
\* with a type outside the allow-list, an A value that is no IPv4 literal, an
\* AAAA value that is no IPv6 literal) reports an error and leaves the store
\* as it was.
C13_ValidationBeforeMutation ==
  (SetCall /\ (\/ ~UnderManagedZone(ret.qname)
               \/ ret.value # None /\ ~ValidRecord(Upper(ret.rtype), ret.value[1])))
  => /\ ret.result = "error"
     /\ custom = ret.before

\* an IPv6 literal offered for an A record of a managed name held in the store
C13_Witness ==
  /\ SetCall
  /\ UnderManagedZone(ret.qname)
  /\ Upper(ret.rtype) = "A"
  /\ ret.value = Some(IP6)
  /\ InConfig(ret.before, ret.qname)
  /\ ret.result = "error"

\* C14: a call that passes validation returns changed exactly when the store
\* after the call differs from the store before it.
C14_ChangedIffDiffers ==
  (SetCall /\ ret.result # "error") =>
    (ret.result = "True" <=> custom # ret.before)

\* C15: after a call with a value that passes validation the store holds that
\* value for (name, type).
C15_SetTakesEffect ==
  (SetCall /\ ret.value # None
           /\ UnderManagedZone(ret.qname)
           /\ ValidRecord(Upper(ret.rtype), ret.value[1]))
  => StoredValue(custom, ret.qname, Upper(ret.rtype)) = ret.value

\* C16: a call whose type is outside the allow-list is rejected, whether it
\* sets a value or deletes.
C16_UnknownTypeRejected ==
  (SetCall /\ Upper(ret.rtype) \notin AllowList) => ret.result = "error"

---------------------------------------------------------------------------
(* Claims about the derived configuration and the restarts (Spec) *)

EventsIn(evs) == {k \in 1..Len(log) : log[k].ev \in evs}
Before(earlier, later) == \A a \in earlier, b \in later : a < b
Contains(text, part) ==
  \E i \in 1..(Len(text) - Len(part) + 1) : SubSeq(text, i, i + Len(part) - 1) = part

\* The zones of the run: the domains of the run with no other domain above them
RunZones ==
  {d \in hist.cur.domains : ~\E a \in hist.cur.domains : StrictSubdomain(d, a)}

\* The entry of nsd.conf for a zone, naming its signed file
SignedZoneEntry(d) ==
  <<"\nzone:\n\tname: ">> \o d \o <<"\n\tzonefile: ">> \o d \o <<".txt", ".signed", "\n">>

\* C17: nsd.conf and the DKIM tables are written only after every zone of the
\* run has been processed (written and signed where changed), and every zone
\* entry of nsd.conf names the zone's file with the ".signed" suffix.
C17_DerivedConfigAfterZones ==
  EventsIn({"nsdconf", "table"}) # {} =>
    /\ Before(EventsIn({"zone", "write", "sign"}), EventsIn({"nsdconf", "table"}))
    /\ {log[k].domain : k \in Events("zone")} = RunZones
    /\ Events("nsdconf") # {} =>
         /\ \A d \in RunZones : Contains(nsdconf, SignedZoneEntry(d))
         /\ Cardinality({i \in 1..Len(nsdconf) : nsdconf[i] = "\n\tzonefile: "})
              = Cardinality(RunZones)

\* a run over two zones that writes nsd.conf and a table
C17_Witness ==
  /\ RunCompleted
  /\ Events("nsdconf") # {}
  /\ Events("table") # {}
  /\ Cardinality(RunZones) = 2

AnyWrite == EventsIn({"write", "nsdconf", "table"}) # {}

---------------------------------------------------------------------------
(* Claims about the unchanged decision of write_nsd_zone (SpecWrite) *)

WroteZone == ret.op = "write_nsd_zone"

\* The file carries a serial token and, with the token's digits replaced by
\* the placeholder, is the text given.
IsModuloSerial(file, zone) ==
  /\ file.exists
  /\ SearchSerial(file.text) # None
  /\ LET m == SearchSerial(file.text)[1]
     IN SubSeq(file.text, 1, m[1] - 1) \o <<Placeholder>>
          \o SubSeq(file.text, m[2] + 1, Len(file.text)) = zone

NewRendering == RenderZone(PrimaryHostname, WriteRecords, env)

UnchangedConditions ==
  /\ IsModuloSerial(ret.before, NewRendering)
  /\ ~run.force
  /\ SignedFresh(signed[PrimaryHostname], now)

\* C19: write_nsd_zone reports no change and leaves the file alone exactly
\* when the zone file exists with a serial token, the new rendering equals it
\* with the serial replaced by the placeholder, the force flag is off, the
\* signed zone exists, it has at least one RRSIG-over-SOA expiration, and the
\* earliest of them is 3 days or more after now; in every other case the file
\* is rewritten with the new rendering and a change is reported.
C19_UnchangedDecision ==
  WroteZone =>
    IF UnchangedConditions
    THEN ~ret.changed /\ zonefile[PrimaryHostname] = ret.before
    ELSE /\ ret.changed
         /\ IsModuloSerial(zonefile[PrimaryHostname], NewRendering)
         /\ zonefile[PrimaryHostname] # ret.before

\* no change reported with the earliest of two expirations exactly 3 days off
C19_Witness ==
  /\ WroteZone
  /\ ~ret.changed
  /\ Len(signed[PrimaryHostname].exps) = 2
  /\ ParseTime(MinStr(signed[PrimaryHostname].exps)) - now = ResignDays * HalfDaysPerDay

---------------------------------------------------------------------------
(* Claims about the folding of subdomains into their zone (SpecBuild) *)

BuiltZone == ret.op = "build_zone"

\* The managed domains that are strict subdomains of the zone built
FoldedSubdomains ==
  {d \in get_dns_domains(env, mail_domains) : StrictSubdomain(d, ret.domain)}

\* s relative to the zone built
RelativeLabel(d) == SubSeq(d, 1, Len(d) - Len(ret.domain) - 1)

RecordsAt(qname, rtype) ==
  {i \in 1..Len(ret.records) :
     ret.records[i].qname = Some(qname) /\ ret.records[i].rtype = rtype}

AtOrUnder(qname, label) ==
  qname # None /\ (qname[1] = label \/ EndsWith(qname[1], Dot \o label))

\* MX, SPF, DKIM, DMARC and address records once each under the label
MailRecordsOnce(label) ==
  /\ \E i \in RecordsAt(label, "MX") :
       /\ RecordsAt(label, "MX") = {i}
       /\ ret.records[i].value = <<"10 ">> \o env.PRIMARY_HOSTNAME \o Dot
  /\ Cardinality(TxtWithPrefix(ret.records, Some(label), SpfPrefix)) = 1
  /\ Cardinality(RecordsAt(DkimRecordFile.name \o Dot \o label, "TXT")) = 1
  /\ Cardinality(TxtWithPrefix(ret.records, Some(Q_dmarc \o Dot \o label), DmarcPrefix)) = 1
  /\ \E i \in RecordsAt(label, "A") :
       /\ RecordsAt(label, "A") = {i}
       /\ ret.records[i].value = env.PUBLIC_IP
  /\ Cardinality(RecordsAt(label, "AAAA")) <= 1
  /\ IF HasIPv6(env)
     THEN \E i \in RecordsAt(label, "AAAA") : ret.records[i].value = env.PUBLIC_IPV6[1]
     ELSE \A i \in RecordsAt(label, "AAAA") : ret.records[i].explanation = UserSet

NoNsUnder(label) ==
  \A i \in 1..Len(ret.records) :
    AtOrUnder(ret.records[i].qname, label) => ret.records[i].rtype # "NS"

NoDefaultWww(label) ==
  \A i \in RecordsAt(Q_www \o Dot \o label, "A") \cup RecordsAt(Q_www \o Dot \o label, "AAAA") :
    ret.records[i].explanation = UserSet

Glue(label) ==
  UNION {RecordsAt(ns \o Dot \o label, rtype) : ns \in {Q_ns1, Q_ns2}, rtype \in {"A", "AAAA"}}

(* C20, as stated: for every zone and every managed strict subdomain s of it,
   the primary hostname included, the zone's list has s's MX, SPF, DKIM, DMARC
   and address records once each under s's label, and no NS record, no ns1/ns2
   address glue and no default www record under s's label. *)
C20_FoldingWithoutGlue ==
  BuiltZone =>
    \A d \in FoldedSubdomains :
      /\ MailRecordsOnce(RelativeLabel(d))
      /\ NoNsUnder(RelativeLabel(d))
      /\ NoDefaultWww(RelativeLabel(d))
      /\ Glue(RelativeLabel(d)) = {}

(* C20, amended: for every zone and every managed strict subdomain s of it, at
   any depth, the zone's list has s's MX, SPF, DKIM, DMARC and address records
   once each under s's label, and no NS record and no default www record under
   s's label; the ns1/ns2 address glue is absent under s's label unless s is
   the primary hostname, and then it is there once for each name and address
   family of the box. *)
C20_SubdomainFolding ==
  BuiltZone =>
    \A d \in FoldedSubdomains :
      /\ MailRecordsOnce(RelativeLabel(d))
      /\ NoNsUnder(RelativeLabel(d))
      /\ NoDefaultWww(RelativeLabel(d))
      /\ IF d = env.PRIMARY_HOSTNAME
         THEN \A ns \in {Q_ns1, Q_ns2} :
                /\ Cardinality(RecordsAt(ns \o Dot \o RelativeLabel(d), "A")) = 1
                /\ Cardinality(RecordsAt(ns \o Dot \o RelativeLabel(d), "AAAA"))
                     = (IF HasIPv6(env) THEN 1 ELSE 0)
         ELSE Glue(RelativeLabel(d)) = {}

\* the zone b folds the primary hostname a.b, with its glue, and c.a.b two
\* labels down, without
C20_Witness ==
  /\ BuiltZone
  /\ ret.domain = D_b
  /\ FoldedSubdomains = {D_a_b, D_ca_b}
  /\ Glue(RelativeLabel(D_a_b)) # {}
  /\ RecordsAt(RelativeLabel(D_ca_b), "MX") # {}

---------------------------------------------------------------------------
(* Claims about empty override values (SpecBuild) *)

\* An item of a mapping whose value is blank, or the AAAA sentinel "local"
\* that resolves to a blank IPv6 setting of the box
BlankItem(item, e) ==
  \/ IsBlank(item[2])
  \/ item[1] = "AAAA" /\ item[2] = Local /\ ~HasIPv6(e)

\* The store without its blank values
WithoutBlankItems(entry, e) ==
  [entry EXCEPT !.items = SelectSeq(@, LAMBDA item : ~BlankItem(item, e))]

WithoutBlank(config, e) ==
  SelectSeq([i \in 1..Len(config) |->
               IF config[i].form = "str" THEN config[i] ELSE WithoutBlankItems(config[i], e)],
            LAMBDA entry : IF entry.form = "str" THEN ~IsBlank(entry.value)
                           ELSE entry.items # << >>)

UserRecords == {i \in 1..Len(ret.records) : ret.records[i].explanation = UserSet}

\* C21: for every override whose value is empty or only whitespace, the AAAA
\* sentinel "local" with an empty IPv6 setting included, build_zone emits no
\* record, and the zone is built as if the entry were not in the store.
C21_EmptyOverridesAbsent ==
  BuiltZone =>
    /\ \A i \in UserRecords : ~IsBlank(ret.records[i].value)
    /\ ret.records =
         build_zone(ret.domain, DomainOrder(get_dns_domains(env, mail_domains), ret.seed),
                    WithoutBlank(custom, env), env, TRUE, ret.seed)

---------------------------------------------------------------------------
(* Claims about the two forms of a store entry (SpecStore) *)

FormOf(config, qname) == IF InConfig(config, qname) THEN Lookup(config, qname).form ELSE "absent"

ItemSet(entry) == {entry.items[i] : i \in 1..Len(entry.items)}

\* C22: a successful set stores the first record of a name as a bare string
\* when its type is A and as a one-entry mapping otherwise; a set of type A on
\* a short-form name keeps the short form; a set of another type on a
\* short-form name yields the mapping of the former string under A and the new
\* value under its type; and no call moves a name from mapping form to short
\* form. From the empty store this gives the form of every name after any
\* sequence of sets.
C22_ShortAndMappingForm ==
  SetCall =>
    /\ \A i \in 1..Len(ret.before) :
         ret.before[i].form = "dict" => FormOf(custom, ret.before[i].qname) # "str"
    /\ (ret.result = "True" /\ ret.value # None) =>
         LET rtype == Upper(ret.rtype)
             value == ret.value[1]
             was == FormOf(ret.before, ret.qname)
             entry == Lookup(custom, ret.qname)
         IN /\ InConfig(custom, ret.qname)
            /\ (was = "absent" /\ rtype = "A") => entry = StrEntry(ret.qname, value)
            /\ (was = "absent" /\ rtype # "A") =>
                 entry = DictEntry(ret.qname, <<<<rtype, value>>>>)
            /\ (was = "str" /\ rtype = "A") => entry = StrEntry(ret.qname, value)
            /\ (was = "str" /\ rtype # "A") =>
                 /\ entry.form = "dict"
                 /\ Len(entry.items) = 2
                 /\ ItemSet(entry) = {<<"A", Lookup(ret.before, ret.qname).value>>,
                                      <<rtype, value>>}
            /\ was = "dict" => entry.form = "dict"

\* from the empty store, an A record and then a TXT record for www.b: a bare
\* string first, then the mapping of both
C22_Witness ==
  /\ SetCall
  /\ ret.prev.op = "set"
  /\ ret.prev.before = << >>
  /\ ret.prev.qname = Q_www_b /\ ret.prev.rtype = "A" /\ ret.prev.result = "True"
  /\ ret.before = <<StrEntry(Q_www_b, IP4)>>
  /\ ret.qname = Q_www_b /\ ret.rtype = "txt" /\ ret.result = "True"
  /\ custom = <<DictEntry(Q_www_b, <<<<"A", IP4>>, <<"TXT", ret.value[1]>>>>)>>

---------------------------------------------------------------------------
(* Claims about the order and the policy records of a zone (SpecPolicy) *)

\* The records in the order build_zone appended them, before the sort
Inserted ==
  AddStrict(RecordsBeforeStrict, SetOrder(ResolvableQnames(RecordsBeforeStrict), ret.seed))

\* C23: build_zone returns the same ordered list whatever order the managed
\* domains and the names with an address are iterated in; in the list the apex
\* records come first, the records are ordered by the reversed labels of their
\* name, and the records of one name keep the order they were appended in.
C23_DeterministicSynthesis ==
  BuiltZone =>
    /\ \A s1 \in HashSeeds, s2 \in HashSeeds :
         build_zone(ret.domain, DomainOrder(get_dns_domains(env, mail_domains), s1),
                    custom, env, TRUE, s2) = ret.records
    /\ \A i \in 1..Len(ret.records), j \in 1..Len(ret.records) :
         i < j => ~ListLess(SortKey(ret.records[j]), SortKey(ret.records[i]))
    /\ \A q \in Qnames(ret.records) :
         SelectSeq(ret.records, LAMBDA r : r.qname = q)
           = SelectSeq(Inserted, LAMBDA r : r.qname = q)

\* C26: in every list build_zone returns, every name has at most one TXT
\* record starting with "v=spf1 " and at most one starting with "v=DMARC1; ",
\* whatever the override store holds.
C26_OnePolicyPerName ==
  BuiltZone =>
    \A q \in Qnames(ret.records) :
      /\ Cardinality(TxtWithPrefix(ret.records, q, SpfPrefix)) <= 1
      /\ Cardinality(TxtWithPrefix(ret.records, q, DmarcPrefix)) <= 1

---------------------------------------------------------------------------
(* Claims about the signed zones over several runs (SpecResume, SpecPeriodic) *)

\* The signed zone was made from the zone file as it is now
SignedFromCurrent(d) ==
  /\ zonefile[d].exists
  /\ signed[d].exists
  /\ signed[d].text = zonefile[d].text

\* C24: after any sequence of runs, runs aborted by a failure of sign_zone
\* after the zone file was rewritten included, once a run completes without
\* error the signed zone of every zone of the run was made from the zone's
\* current zone file (same content and serial).
C24_SignedInStep ==
  RunCompleted => \A d \in RunZones : SignedFromCurrent(d)

\* C25: with signatures valid for 30 days and a run completing at intervals
\* shorter than 3 days, at every moment after the first run the earliest
\* RRSIG-over-SOA expiration of every signed zone lies in the future, and
\* every zone of a completed run has a signed zone.
C25_SignaturesNeverLapse ==
  /\ \A d \in FileDomains :
       signed[d].exists =>
         /\ Len(signed[d].exps) > 0
         /\ ParseTime(MinStr(signed[d].exps)) > now
  /\ RunCompleted => \A d \in RunZones : signed[d].exists

\* the clock has passed the expiration of the first signature, and the zone
\* carries a later one
C25_Witness ==
  /\ RunCompleted
  /\ now > ParseTime(ExpiryStamp(0))
  /\ signed[PrimaryHostname].exists
  /\ ParseTime(MinStr(signed[PrimaryHostname].exps)) > now

=========================================================================
